---- MODULE Spec2Model ----
(***************************************************************************)
(* The /agent endpoint of main.py: one POST request seeds a conversation   *)
(* history with the user's prompt and then loops: call the model, append   *)
(* its turn, either return the final text or dispatch the turn's function  *)
(* calls through execute_sql_query and feed the results back.              *)
(*                                                                         *)
(* The model (Vertex AI), the database and the HTTP client are the         *)
(* environment: what they answer is chosen nondeterministically from small *)
(* menus.  Everything the handler itself does is translated from main.py.  *)
(***************************************************************************)
EXTENDS Integers, Sequences, FiniteSets, TLC

(***************************************************************************)
(* Bounds of the model.                                                    *)
(***************************************************************************)
NumRequests == 2        \* requests in flight (SpecConc; Spec and SpecLong run request 1)
MaxParts == 2           \* longest model turn, in parts (Spec)
MaxTurns == 1           \* model turns one request may receive (Spec)
MaxLongTurns == 11      \* model turns one request may receive (SpecLong)
MaxConcTurns == 1       \* model turns one request may receive (SpecConc)

Requests == 1..NumRequests

VARIABLES
    request,                  \* main.py:78   the body of the POST request
    pc,                       \* where each request's handler stands
    history,                  \* main.py:83   the list `history`
    candidate,                \* main.py:88   parts of candidate.content
    idx,                      \* main.py:105  position of the for loop
    function_response_parts,  \* main.py:102
    sent,                     \* the history argument of the latest generate_content call
    modelCalls,               \* number of generate_content calls made
    execLog,                  \* execute_sql_query calls: query, what the database did, returned string
    http                      \* the HTTP response of the request

vars == <<request, pc, history, candidate, idx, function_response_parts, sent,
          modelCalls, execLog, http>>

(***************************************************************************)
(* Values.  Every scalar payload is a string so that values stay           *)
(* comparable.                                                             *)
(***************************************************************************)
NoArgs == [k \in {} |-> ""]
None == [kind |-> "none"]

\* Part.from_text
Text(t) == [kind |-> "text", text |-> t]
\* a part of a model turn whose function_call is set
FunctionCall(n, a) == [kind |-> "function_call", name |-> n, args |-> a]
\* Part.from_function_response
FunctionResponse(n, resp) == [kind |-> "function_response", name |-> n, response |-> resp]
\* candidate.content: the model's turn as one Content object
Content(parts) == [kind |-> "content", role |-> "model", parts |-> parts]

(***************************************************************************)
(* Python values a row can hold and the JSON values they are written as.   *)
(***************************************************************************)
PyInt(s) == [py |-> "int", v |-> s]
PyStr(s) == [py |-> "str", v |-> s]
PyDecimal(s) == [py |-> "Decimal", v |-> s]
PyDate(s) == [py |-> "date", v |-> s]
JNum(s) == [js |-> "number", v |-> s]
JStr(s) == [js |-> "string", v |-> s]

\* a Python str that is a JSON document, and one that is not
JsonText(doc) == [kind |-> "json_text", doc |-> doc, text |-> <<>>]
PlainText(pieces) == [kind |-> "plain_text", doc |-> <<>>, text |-> pieces]
\* a Python list (of row dicts)
PyList(items) == [kind |-> "list", doc |-> items, text |-> <<>>]

\* json.JSONEncoder accepts int and str itself; DecimalEncoder.default adds
\* Decimal and hands everything else to JSONEncoder.default, which raises
\* TypeError.
Serializable(v) == v.py \in {"int", "str", "Decimal"}

DecimalEncoder(v) ==
    IF v.py = "int" THEN JNum(v.v)
    ELSE JStr(v.v)          \* str as it is, Decimal through str(obj)

AllSerializable(rows) ==
    \A i \in 1..Len(rows) : \A f \in DOMAIN rows[i] : Serializable(rows[i][f])

\* json.dumps(rows, cls=DecimalEncoder): a JSON array of objects, in row order
JsonDumps(rows) ==
    [i \in 1..Len(rows) |-> [f \in DOMAIN rows[i] |-> DecimalEncoder(rows[i][f])]]

JsonLoadsValue(j) == IF j.js = "number" THEN PyInt(j.v) ELSE PyStr(j.v)

\* as if the parsed rows came out last row first
JsonLoadsReversed(doc) ==
    PyList([i \in 1..Len(doc) |->
               [f \in DOMAIN doc[Len(doc) + 1 - i] |-> JsonLoadsValue(doc[Len(doc) + 1 - i][f])]])

\* json.loads of a JSON array of objects: a list of dicts, in document order
JsonLoads(doc) ==
    PyList([i \in 1..Len(doc) |-> [f \in DOMAIN doc[i] |-> JsonLoadsValue(doc[i][f])]])

(***************************************************************************)
(* The database.  conn.execute either raises (connection, syntax or        *)
(* permission error) or yields rows.                                       *)
(***************************************************************************)
DbRaises(msg) == [raised |-> TRUE, msg |-> msg, rows |-> <<>>]
DbRows(rows) == [raised |-> FALSE, msg |-> "", rows |-> rows]

RowA == [product_id |-> PyInt("1"), product_name |-> PyStr("A"), price |-> PyDecimal("9.99")]
RowB == [product_id |-> PyInt("2"), product_name |-> PyStr("B"), price |-> PyDecimal("5.00")]
RowD == [product_id |-> PyInt("3"), product_name |-> PyStr("C"), price |-> PyDate("2024-01-01")]

\* psycopg2 refuses an empty statement ("can't execute an empty query")
DbAnswers(query, db) == query = "" => db.raised

\* main.py:41-51
execute_sql_query(query, db) ==
    IF db.raised
    THEN PlainText(<<"Error executing query: ", db.msg>>)
    ELSE IF AllSerializable(db.rows)
         THEN JsonText(JsonDumps(db.rows))
         ELSE PlainText(<<"Error executing query: ", "Object is not JSON serializable">>)

\* main.py:115-121: json.loads raises JSONDecodeError on anything that is not
\* a JSON document, and the handler then uses the string as it is.
ResponseData(tool_output) ==
    IF tool_output.kind = "json_text"
    THEN [result |-> JsonLoads(tool_output.doc)]
    ELSE [result |-> tool_output]

\* as if main.py:132 left the tool's name out of the message
ToolNotFoundUnnamed(tool_name) == [error |-> <<"Tool '", "", "' not found.">>]

\* main.py:132
ToolNotFound(tool_name) == [error |-> <<"Tool '", tool_name, "' not found.">>]

\* as if main.py:112 were function_call.args.get("query"), whose None then
\* reaches the statement as text
ArgsGetNone(args, key, default) == IF key \in DOMAIN args THEN args[key] ELSE "None"

\* main.py:112  function_call.args.get("query", "")
ArgsGet(args, key, default) == IF key \in DOMAIN args THEN args[key] ELSE default

\* main.py:106  the truth value of part.function_call
HasFunctionCall(part) == part.kind = "function_call"

\* as if main.py:96 tested only `not candidate.content.parts`
IsFinalWhenEmpty(parts) == parts = <<>>

\* main.py:96
IsFinal(parts) == parts = <<>> \/ ~HasFunctionCall(parts[1])

\* main.py:98  candidate.text.  The SDK's accessor returns the text of a turn
\* that is exactly one text part; for a turn without parts ("Response
\* candidate content has no parts") and for a turn of several parts
\* ("Multiple content parts are not supported") it raises ValueError.
TextRaises(parts) == Len(parts) # 1 \/ parts[1].kind # "text"
CandidateText(parts) == parts[1].text

\* as if main.py:79 tested `user_prompt is None`
NotUserPromptNoneOnly(obj) == "prompt" \notin DOMAIN obj

\* main.py:79  `not user_prompt` on request.json.get("prompt")
NotUserPrompt(obj) == IF "prompt" \in DOMAIN obj THEN obj["prompt"] = "" ELSE TRUE

(***************************************************************************)
(* HTTP responses.                                                         *)
(***************************************************************************)
NoResponse == [status |-> 0, body |-> NoArgs]
Ok200(text) == [status |-> 200, body |-> [response |-> text]]
BadRequest400 == [status |-> 400, body |-> [error |-> <<"Prompt must not be empty.">>]]
Internal500(e) == [status |-> 500, body |-> [error |-> <<"An internal error occurred. ", e>>]]

(***************************************************************************)
(* What the environment may send.                                          *)
(***************************************************************************)
Prompt == "List all products"
Query == "SELECT * FROM products"

JsonBody(obj) == [json |-> TRUE, obj |-> obj]
NotJsonBody == [json |-> FALSE, obj |-> NoArgs]
Bodies == {NotJsonBody, JsonBody(NoArgs), JsonBody([prompt |-> ""]), JsonBody([prompt |-> Prompt])}

SqlCall == FunctionCall("execute_sql_query", [query |-> Query])
SqlCallNoQuery == FunctionCall("execute_sql_query", NoArgs)
OtherCall == FunctionCall("drop_table", NoArgs)

SeqsUpTo(S, n) == UNION {[1..k -> S] : k \in 0..n}

PartMenu == {Text("a"), SqlCall, SqlCallNoQuery, OtherCall}
Responses == SeqsUpTo(PartMenu, MaxParts)
DbMenu == {DbRows(<<RowA, RowB>>), DbRows(<<RowD>>), DbRaises("syntax error")}

LongResponses == {<<Text("a")>>, <<SqlCall, Text("a"), OtherCall>>}
LongDbMenu == {DbRows(<<RowB, RowA>>), DbRaises("connection refused")}

(***************************************************************************)
(* The handler, main.py:75-143.                                            *)
(***************************************************************************)
Init ==
    /\ request = [r \in Requests |-> NotJsonBody]
    /\ pc = [r \in Requests |-> "idle"]
    /\ history = [r \in Requests |-> <<>>]
    /\ candidate = [r \in Requests |-> <<>>]
    /\ idx = [r \in Requests |-> 0]
    /\ function_response_parts = [r \in Requests |-> <<>>]
    /\ sent = [r \in Requests |-> <<>>]
    /\ modelCalls = [r \in Requests |-> 0]
    /\ execLog = [r \in Requests |-> <<>>]
    /\ http = [r \in Requests |-> NoResponse]

\* return jsonify(...), status: the request is over
Return(r, resp) ==
    /\ pc' = [pc EXCEPT ![r] = "done"]
    /\ http' = [http EXCEPT ![r] = resp]

\* main.py:77-83
Receive(r, body) ==
    /\ pc[r] = "idle"
    /\ request' = [request EXCEPT ![r] = body]
    /\ IF ~body.json
       THEN /\ Return(r, Internal500("request.json"))
            /\ UNCHANGED history
       ELSE IF NotUserPrompt(body.obj)
       THEN /\ Return(r, BadRequest400)
            /\ UNCHANGED history
       ELSE /\ history' = [history EXCEPT ![r] = <<Text(body.obj["prompt"])>>]
            /\ pc' = [pc EXCEPT ![r] = "awaiting_model"]
            /\ UNCHANGED http
    /\ UNCHANGED <<candidate, idx, function_response_parts, sent, modelCalls, execLog>>

\* main.py:87  model.generate_content(history, tools=[execute_sql_tool]) is called
ModelCall(r) ==
    /\ pc[r] = "awaiting_model"
    /\ pc' = [pc EXCEPT ![r] = "in_model"]
    /\ sent' = [sent EXCEPT ![r] = history[r]]
    /\ modelCalls' = [modelCalls EXCEPT ![r] = @ + 1]
    /\ UNCHANGED <<request, history, candidate, idx, function_response_parts, execLog, http>>

\* as if a failed generate_content were tried again
ModelRaisesAndRetries(r) ==
    /\ pc[r] = "in_model"
    /\ pc' = [pc EXCEPT ![r] = "awaiting_model"]
    /\ UNCHANGED <<request, history, candidate, idx, function_response_parts, sent, modelCalls, execLog, http>>

\* main.py:87, 141-143  generate_content raises
ModelRaises(r) ==
    /\ pc[r] = "in_model"
    /\ Return(r, Internal500("generate_content"))
    /\ UNCHANGED <<request, history, candidate, idx, function_response_parts, sent, modelCalls, execLog>>

\* as if main.py:92 came after the test at main.py:96: a final turn is
\* returned without being appended
ModelReturnsAppendsLate(r, parts) ==
    /\ pc[r] = "in_model"
    /\ candidate' = [candidate EXCEPT ![r] = parts]
    /\ IF IsFinal(parts)
       THEN /\ IF TextRaises(parts)
               THEN Return(r, Internal500("candidate.text"))
               ELSE Return(r, Ok200(CandidateText(parts)))
            /\ UNCHANGED <<history, idx, function_response_parts>>
       ELSE /\ history' = [history EXCEPT ![r] = Append(@, Content(parts))]
            /\ pc' = [pc EXCEPT ![r] = "dispatching"]
            /\ idx' = [idx EXCEPT ![r] = 1]
            /\ function_response_parts' = [function_response_parts EXCEPT ![r] = <<>>]
            /\ UNCHANGED http
    /\ UNCHANGED <<request, sent, modelCalls, execLog>>

\* main.py:88-102  generate_content returns a turn
ModelReturns(r, parts) ==
    /\ pc[r] = "in_model"
    /\ history' = [history EXCEPT ![r] = Append(@, Content(parts))]
    /\ candidate' = [candidate EXCEPT ![r] = parts]
    /\ IF IsFinal(parts)
       THEN /\ IF TextRaises(parts)
               THEN Return(r, Internal500("candidate.text"))
               ELSE Return(r, Ok200(CandidateText(parts)))
            /\ UNCHANGED <<idx, function_response_parts>>
       ELSE /\ pc' = [pc EXCEPT ![r] = "dispatching"]
            /\ idx' = [idx EXCEPT ![r] = 1]
            /\ function_response_parts' = [function_response_parts EXCEPT ![r] = <<>>]
            /\ UNCHANGED http
    /\ UNCHANGED <<request, sent, modelCalls, execLog>>

InLoop(r) == pc[r] = "dispatching" /\ idx[r] <= Len(candidate[r])
Part(r) == candidate[r][idx[r]]

\* main.py:105-106  a part that is no function call is passed over
SkipPart(r) ==
    /\ InLoop(r)
    /\ ~HasFunctionCall(Part(r))
    /\ idx' = [idx EXCEPT ![r] = @ + 1]
    /\ UNCHANGED <<request, pc, history, candidate, function_response_parts, sent, modelCalls, execLog, http>>

\* as if the query were handed to a worker and the loop went on to the next
\* part without waiting for it
ExecutorCallNoWait(r) ==
    /\ InLoop(r)
    /\ HasFunctionCall(Part(r))
    /\ Part(r).name = "execute_sql_query"
    /\ idx' = [idx EXCEPT ![r] = @ + 1]
    /\ execLog' = [execLog EXCEPT ![r] =
           Append(@, [query |-> ArgsGet(Part(r).args, "query", ""), db |-> None, output |-> None])]
    /\ UNCHANGED <<request, pc, history, candidate, function_response_parts, sent, modelCalls, http>>

\* main.py:110-113  execute_sql_query(query) is called
ExecutorCall(r) ==
    /\ InLoop(r)
    /\ HasFunctionCall(Part(r))
    /\ Part(r).name = "execute_sql_query"
    /\ pc' = [pc EXCEPT ![r] = "in_executor"]
    /\ execLog' = [execLog EXCEPT ![r] =
           Append(@, [query |-> ArgsGet(Part(r).args, "query", ""), db |-> None, output |-> None])]
    /\ UNCHANGED <<request, history, candidate, idx, function_response_parts, sent, modelCalls, http>>

\* as if execute_sql_query had no try/except: the database's error leaves the
\* loop and reaches the handler's except clause
ExecutorReturnsOrRaises(r, db) ==
    /\ pc[r] = "in_executor"
    /\ DbAnswers(execLog[r][Len(execLog[r])].query, db)
    /\ LET n == Len(execLog[r])
           tool_output == execute_sql_query(execLog[r][n].query, db)
       IN /\ execLog' = [execLog EXCEPT ![r][n].db = db, ![r][n].output = tool_output]
          /\ IF db.raised
             THEN /\ Return(r, Internal500(db.msg))
                  /\ UNCHANGED <<function_response_parts, idx>>
             ELSE /\ function_response_parts' = [function_response_parts EXCEPT ![r] =
                         Append(@, FunctionResponse(Part(r).name, ResponseData(tool_output)))]
                  /\ idx' = [idx EXCEPT ![r] = @ + 1]
                  /\ pc' = [pc EXCEPT ![r] = "dispatching"]
                  /\ UNCHANGED http
    /\ UNCHANGED <<request, history, candidate, sent, modelCalls>>

\* main.py:113-127  execute_sql_query returns and its output is wrapped
ExecutorReturns(r, db) ==
    /\ pc[r] = "in_executor"
    /\ DbAnswers(execLog[r][Len(execLog[r])].query, db)
    /\ LET n == Len(execLog[r])
           tool_output == execute_sql_query(execLog[r][n].query, db)
       IN /\ execLog' = [execLog EXCEPT ![r][n].db = db, ![r][n].output = tool_output]
          /\ function_response_parts' = [function_response_parts EXCEPT ![r] =
                 Append(@, FunctionResponse(Part(r).name, ResponseData(tool_output)))]
    /\ idx' = [idx EXCEPT ![r] = @ + 1]
    /\ pc' = [pc EXCEPT ![r] = "dispatching"]
    /\ UNCHANGED <<request, history, candidate, sent, modelCalls, http>>

\* as if a function call that names another tool were passed over
UnknownToolIgnored(r) ==
    /\ InLoop(r)
    /\ HasFunctionCall(Part(r))
    /\ Part(r).name # "execute_sql_query"
    /\ idx' = [idx EXCEPT ![r] = @ + 1]
    /\ UNCHANGED <<request, pc, history, candidate, function_response_parts, sent, modelCalls, execLog, http>>

\* main.py:128-133  a function call that names another tool
UnknownTool(r) ==
    /\ InLoop(r)
    /\ HasFunctionCall(Part(r))
    /\ Part(r).name # "execute_sql_query"
    /\ function_response_parts' = [function_response_parts EXCEPT ![r] =
           Append(@, FunctionResponse(Part(r).name, ToolNotFound(Part(r).name)))]
    /\ idx' = [idx EXCEPT ![r] = @ + 1]
    /\ UNCHANGED <<request, pc, history, candidate, sent, modelCalls, execLog, http>>

\* as if main.py:137 assigned `history = function_response_parts`
ExtendHistoryAssigns(r) ==
    /\ pc[r] = "dispatching"
    /\ idx[r] > Len(candidate[r])
    /\ history' = [history EXCEPT ![r] = function_response_parts[r]]
    /\ pc' = [pc EXCEPT ![r] = "awaiting_model"]
    /\ UNCHANGED <<request, candidate, idx, function_response_parts, sent, modelCalls, execLog, http>>

\* as if `history` were a module-level list that every request appends to
ExtendHistoryShared(r) ==
    /\ pc[r] = "dispatching"
    /\ idx[r] > Len(candidate[r])
    /\ history' = [q \in Requests |-> history[r] \o function_response_parts[r]]
    /\ pc' = [pc EXCEPT ![r] = "awaiting_model"]
    /\ UNCHANGED <<request, candidate, idx, function_response_parts, sent, modelCalls, execLog, http>>

\* as if main.py:137 were missing: the collected results are dropped
ExtendHistoryDropsResults(r) ==
    /\ pc[r] = "dispatching"
    /\ idx[r] > Len(candidate[r])
    /\ pc' = [pc EXCEPT ![r] = "awaiting_model"]
    /\ UNCHANGED <<request, history, candidate, idx, function_response_parts, sent, modelCalls, execLog, http>>

\* main.py:137  history.extend(function_response_parts), and back to the top
ExtendHistory(r) ==
    /\ pc[r] = "dispatching"
    /\ idx[r] > Len(candidate[r])
    /\ history' = [history EXCEPT ![r] = @ \o function_response_parts[r]]
    /\ pc' = [pc EXCEPT ![r] = "awaiting_model"]
    /\ UNCHANGED <<request, candidate, idx, function_response_parts, sent, modelCalls, execLog, http>>

\* the model turns a request has received so far
ModelTurns(r) == Len(SelectSeq(history[r], LAMBDA e : e.kind = "content"))

Step(r, responses, dbMenu, maxTurns) ==
    \/ \E body \in Bodies : Receive(r, body)
    \/ ModelCall(r)
    \/ ModelRaises(r)
    \/ \E parts \in responses : modelCalls[r] <= maxTurns /\ ModelReturns(r, parts)
    \/ SkipPart(r)
    \/ ExecutorCall(r)
    \/ \E db \in dbMenu : ExecutorReturns(r, db)
    \/ UnknownTool(r)
    \/ ExtendHistory(r)

\* one request, model turns of up to MaxParts parts
Next == Step(1, Responses, DbMenu, MaxTurns)
Spec == Init /\ [][Next]_vars

\* one request, short model turns, a long conversation
NextLong == Step(1, LongResponses, LongDbMenu, MaxLongTurns)
SpecLong == Init /\ [][NextLong]_vars

\* NumRequests requests handled at once, in any interleaving.  What the model
\* and the database answer to request r is marked with r, so that an answer
\* can be told from the answers given to another request.
Tag(r) == ToString(r)
ConcResponses(r) ==
    {<<Text(Tag(r))>>,
     <<FunctionCall("execute_sql_query", [query |-> Tag(r)]), Text(Tag(r)),
       FunctionCall(Tag(r), NoArgs)>>}
ConcDbMenu(r) == {DbRows(<<[product_id |-> PyInt(Tag(r))]>>), DbRaises(Tag(r))}

NextConc == \E r \in Requests : Step(r, ConcResponses(r), ConcDbMenu(r), MaxConcTurns)
SpecConc == Init /\ [][NextConc]_vars

(***************************************************************************)
(* What an observer at the boundaries can read off a request.              *)
(***************************************************************************)
IsContent(e) == e.kind = "content"
IsToolResult(e) == e.kind = "function_response"
Last(q) == q[Len(q)]
Front(q) == SubSeq(q, 1, Len(q) - 1)

\* the parts of the k-th model turn in a history
ModelTurn(h, k) == SelectSeq(h, IsContent)[k].parts
\* a model turn that begins with a function call
BeginsWithCall(parts) == parts # <<>> /\ parts[1].kind = "function_call"
BeginsWithText(parts) == parts # <<>> /\ parts[1].kind = "text"
\* the model turns of a history that begin with a function call
CallTurns(h) == SelectSeq(h, LAMBDA e : IsContent(e) /\ BeginsWithCall(e.parts))
\* the tool results of a history, in order
ToolResults(h) == SelectSeq(h, IsToolResult)
\* the request is between the dispatch of a turn's first and last part
MidDispatch(r) == pc[r] \in {"dispatching", "in_executor"}
Ended(r) == pc[r] = "done"

\* the function calls of the turns handed to dispatch, the current turn up to
\* the part the for loop stands at
RECURSIVE CallsIn(_)
CallsIn(h) ==
    IF h = <<>> THEN <<>>
    ELSE CallsIn(Front(h)) \o
         (IF IsContent(Last(h)) /\ BeginsWithCall(Last(h).parts)
          THEN SelectSeq(Last(h).parts, HasFunctionCall) ELSE <<>>)

HandledCalls(r) ==
    IF MidDispatch(r)
    THEN CallsIn(Front(history[r])) \o
         SelectSeq(SubSeq(candidate[r], 1, idx[r] - 1), HasFunctionCall)
    ELSE CallsIn(history[r])

\* the tool results built so far, appended to the history or still collected
ResultsSoFar(r) ==
    ToolResults(history[r]) \o
    (IF MidDispatch(r) THEN function_response_parts[r] ELSE <<>>)

\* the tool results of execute_sql_query calls; the i-th belongs to the i-th
\* executor invocation
SqlResults(results) == SelectSeq(results, LAMBDA e : e.name = "execute_sql_query")

\* a list of row dicts holds exactly the rows of a JSON array, in its order
SameRows(items, doc) ==
    /\ Len(items) = Len(doc)
    /\ \A i \in 1..Len(doc) :
        /\ DOMAIN items[i] = DOMAIN doc[i]
        /\ \A f \in DOMAIN doc[i] :
            /\ items[i][f].v = doc[i][f].v
            /\ items[i][f].py = (IF doc[i][f].js = "number" THEN "int" ELSE "str")

\* a tool result carries what the executor returned: the rows of the JSON
\* document, or the error text as it is
Carries(result, output) ==
    /\ DOMAIN result.response = {"result"}
    /\ IF output.kind = "json_text"
       THEN /\ result.response.result.kind = "list"
            /\ SameRows(result.response.result.doc, output.doc)
       ELSE result.response.result = output

(***************************************************************************)
(* C1.  Whatever the model answers, a request makes at most 10 model       *)
(* invocations.                                                            *)
(* main.py:85 loops `while True`: a model that begins every turn with a    *)
(* function call is invoked an eleventh time.                              *)
(***************************************************************************)
C1_AtMostTenInvocations == \A r \in Requests : modelCalls[r] <= 10

(***************************************************************************)
(* C2.  After ten model turns that each begin with a tool call the request *)
(* ends with status 200, the limit-reached message and "chat_history".     *)
(* The handler has no such exit: after the tenth dispatch it stands at the *)
(* top of the loop again.                                                  *)
(***************************************************************************)
C2_LimitReachedAfterTenToolTurns ==
    \A r \in Requests :
        (Len(CallTurns(history[r])) = 10 /\ ~MidDispatch(r))
        => /\ Ended(r)
           /\ http[r].status = 200
           /\ DOMAIN http[r].body = {"response", "chat_history"}

(***************************************************************************)
(* C3.  If the first model turn begins with a text part, the request ends  *)
(* after that one invocation, without any executor call, with status 200   *)
(* and that text.                                                          *)
(* Fails for a first turn of several parts: candidate.text raises and the  *)
(* request ends with status 500.                                           *)
(***************************************************************************)
C3_FirstTextTurnEndsRequest ==
    \A r \in Requests :
        (ModelTurns(r) >= 1 /\ BeginsWithText(ModelTurn(history[r], 1)))
        => /\ Ended(r)
           /\ modelCalls[r] = 1
           /\ execLog[r] = <<>>
           /\ http[r] = Ok200(ModelTurn(history[r], 1)[1].text)

(***************************************************************************)
(* C4.  For k >= 2: if the first k-1 model turns begin with a tool call    *)
(* and the k-th turn is a text, the request ends with status 200 and that  *)
(* text after exactly k invocations, and the k-th invocation was given a   *)
(* history holding one tool result, in order, for every function call of   *)
(* the k-1 earlier turns.                                                  *)
(***************************************************************************)
IsTextTurn(parts) == Len(parts) = 1 /\ parts[1].kind = "text"

C4_TextAfterToolTurns ==
    \A r \in Requests :
        LET k == ModelTurns(r) IN
        (/\ k >= 2
         /\ \A i \in 1..(k - 1) : BeginsWithCall(ModelTurn(history[r], i))
         /\ IsTextTurn(ModelTurn(history[r], k)))
        => /\ Ended(r)
           /\ http[r] = Ok200(ModelTurn(history[r], k)[1].text)
           /\ modelCalls[r] = k
           /\ Len(SelectSeq(sent[r], IsContent)) = k - 1
           /\ LET calls == CallsIn(Front(history[r]))
                  results == ToolResults(sent[r])
              IN /\ Len(results) = Len(calls)
                 /\ \A i \in 1..Len(calls) : results[i].name = calls[i].name
                 /\ Len(SqlResults(results)) = Len(execLog[r])
                 /\ \A i \in 1..Len(execLog[r]) :
                        Carries(SqlResults(results)[i], execLog[r][i].output)

C4_Witness ==
    /\ ModelTurns(1) = 10
    /\ \A i \in 1..9 : BeginsWithCall(ModelTurn(history[1], i))
    /\ IsTextTurn(ModelTurn(history[1], 10))
    /\ Ended(1)
    /\ Len(ToolResults(sent[1])) = 18

(***************************************************************************)
(* C5.  A request whose JSON body has no prompt, or an empty one, is       *)
(* answered 400 {"error": "Prompt must not be empty."}; no model and no    *)
(* executor invocation is made for it.                                     *)
(***************************************************************************)
PromptMissingOrEmpty(body) ==
    body.json /\ ("prompt" \notin DOMAIN body.obj \/ body.obj["prompt"] = "")

C5_EmptyPromptRejected ==
    \A r \in Requests :
        (pc[r] # "idle" /\ PromptMissingOrEmpty(request[r]))
        => /\ Ended(r)
           /\ http[r].status = 400
           /\ http[r].body = [error |-> <<"Prompt must not be empty.">>]
           /\ modelCalls[r] = 0
           /\ execLog[r] = <<>>
           /\ history[r] = <<>>

C5_Witness ==
    /\ Ended(1)
    /\ request[1] = JsonBody([prompt |-> ""])
    /\ http[1].status = 400

(***************************************************************************)
(* C6.  A function call that names a tool other than execute_sql_query     *)
(* gets a tool result with that name and {error: "Tool '<name>' not        *)
(* found."}; the executor is invoked for the execute_sql_query calls only; *)
(* and once the results are in the history the request goes on to the next *)
(* model invocation.                                                       *)
(***************************************************************************)
IsSqlCall(part) == part.name = "execute_sql_query"
\* the executor invocations that have returned
Returned(r) == IF pc[r] = "in_executor" THEN Len(execLog[r]) - 1 ELSE Len(execLog[r])
\* with the tool results appended, the next model invocation is due, under
\* way, or was made before the request ended
GoesOnToModel(r) ==
    (history[r] # <<>> /\ IsToolResult(Last(history[r])))
    => \/ pc[r] \in {"awaiting_model", "in_model"}
       \/ Ended(r) /\ modelCalls[r] = ModelTurns(r) + 1

C6_UnknownToolNotFound ==
    \A r \in Requests :
        LET calls == HandledCalls(r)
            results == ResultsSoFar(r)
        IN /\ Len(results) = Len(calls)
           /\ \A i \in 1..Len(calls) :
                  ~IsSqlCall(calls[i])
                  => /\ results[i].name = calls[i].name
                     /\ DOMAIN results[i].response = {"error"}
                     /\ results[i].response.error = <<"Tool '", calls[i].name, "' not found.">>
           /\ Returned(r) = Len(SelectSeq(calls, IsSqlCall))
           /\ GoesOnToModel(r)

C6_Witness ==
    /\ pc[1] = "in_model"
    /\ modelCalls[1] = 2
    /\ execLog[1] = <<>>
    /\ \E i \in 1..Len(sent[1]) :
           /\ IsToolResult(sent[1][i])
           /\ sent[1][i].name = "drop_table"

(***************************************************************************)
(* C7.  When the database raises on a dispatched execute_sql_query call,   *)
(* the executor returns "Error executing query: <message>", that text is   *)
(* the tool result of the call, the next model invocation is given a       *)
(* history holding it, and no 500 response comes of it.                    *)
(***************************************************************************)
C7_ExecutorFailureIsToolResult ==
    \A r \in Requests :
        LET results == SqlResults(ResultsSoFar(r)) IN
        /\ \A i \in 1..Returned(r) :
               execLog[r][i].db.raised
               => /\ execLog[r][i].output =
                         PlainText(<<"Error executing query: ", execLog[r][i].db.msg>>)
                  /\ i <= Len(results)
                  /\ DOMAIN results[i].response = {"result"}
                  /\ results[i].response.result = execLog[r][i].output
        /\ pc[r] = "in_model" => SqlResults(ToolResults(sent[r])) = results
        /\ http[r].status = 500
           => http[r].body.error[2] \in {"request.json", "generate_content", "candidate.text"}
        /\ GoesOnToModel(r)

C7_Witness ==
    /\ pc[1] = "in_model"
    /\ modelCalls[1] = 2
    /\ \E i \in 1..Len(execLog[1]) :
           /\ execLog[1][i].db.raised
           /\ \E j \in 1..Len(sent[1]) :
                  /\ IsToolResult(sent[1][j])
                  /\ sent[1][j].response = [result |-> execLog[1][i].output]

(***************************************************************************)
(* C8.  When a dispatched execute_sql_query call succeeds, its tool result *)
(* holds exactly the rows the executor returned, in the same order, and    *)
(* the next model invocation is given a history holding it.                *)
(***************************************************************************)
\* a list of row dicts holds the values of the database's rows, in order
RowsOf(items, rows) ==
    /\ Len(items) = Len(rows)
    /\ \A i \in 1..Len(rows) :
        /\ DOMAIN items[i] = DOMAIN rows[i]
        /\ \A f \in DOMAIN rows[i] : items[i][f].v = rows[i][f].v

Succeeded(entry) == entry.output.kind = "json_text"

C8_RowsReachNextInvocation ==
    \A r \in Requests :
        LET results == SqlResults(ResultsSoFar(r)) IN
        /\ \A i \in 1..Returned(r) :
               Succeeded(execLog[r][i])
               => /\ i <= Len(results)
                  /\ Carries(results[i], execLog[r][i].output)
                  /\ RowsOf(results[i].response.result.doc, execLog[r][i].db.rows)
        /\ pc[r] = "in_model" => SqlResults(ToolResults(sent[r])) = results

C8_Witness ==
    /\ pc[1] = "in_model"
    /\ modelCalls[1] = 2
    /\ \E i \in 1..Len(execLog[1]) :
           /\ Succeeded(execLog[1][i])
           /\ Len(execLog[1][i].db.rows) = 2
           /\ \E j \in 1..Len(sent[1]) :
                  /\ IsToolResult(sent[1][j])
                  /\ Carries(sent[1][j], execLog[1][i].output)

(***************************************************************************)
(* C9.  Once a model invocation has raised, the request is over with       *)
(* status 500 and an "error" body: the model is not invoked again, no      *)
(* executor invocation follows and no 200 response is given.               *)
(***************************************************************************)
\* an invocation was made that neither returned a turn nor is under way
ModelFailed(r) ==
    modelCalls[r] > ModelTurns(r) + (IF pc[r] = "in_model" THEN 1 ELSE 0)

C9_ModelFailureEndsRequest ==
    \A r \in Requests :
        ModelFailed(r)
        => /\ Ended(r)
           /\ http[r].status = 500
           /\ DOMAIN http[r].body = {"error"}
           /\ modelCalls[r] = ModelTurns(r) + 1
           /\ Returned(r) = Len(execLog[r])
           /\ Len(SqlResults(ToolResults(history[r]))) = Len(execLog[r])

C9_Witness ==
    /\ ModelFailed(1)
    /\ Ended(1)
    /\ modelCalls[1] = 3
    /\ Len(execLog[1]) = 2

(***************************************************************************)
(* C10.  A model turn whose first part is text and which holds a function  *)
(* call further on is final: status 200 with the answer text, and none of  *)
(* its function calls is dispatched.                                       *)
(* Nothing is dispatched, but candidate.text raises on the several parts   *)
(* and the request ends with status 500.                                   *)
(***************************************************************************)
TextThenCall(parts) ==
    /\ BeginsWithText(parts)
    /\ \E i \in 2..Len(parts) : HasFunctionCall(parts[i])

C10_TextFirstTurnIsFinal ==
    \A r \in Requests :
        (ModelTurns(r) >= 1 /\ TextThenCall(ModelTurn(history[r], ModelTurns(r))))
        => /\ Ended(r)
           /\ http[r].status = 200
           /\ DOMAIN http[r].body = {"response"}
           /\ Returned(r) = 0
           /\ ToolResults(history[r]) = <<>>

(***************************************************************************)
(* C11.  When the tool calls of a model turn have been dispatched, the     *)
(* history has grown by exactly one element, a turn with role tool_result  *)
(* that holds all the collected tool results, and the loop is back at the  *)
(* model invocation.                                                       *)
(* main.py:137 extends the list by the collected parts themselves: one     *)
(* element for each tool result, so two for a turn of two tool calls.      *)
(***************************************************************************)
\* the parts an element of the history stands for: a Content's parts, or the
\* bare part itself (which the SDK would wrap into a turn of one part)
PartsOf(e) == IF e.kind = "content" THEN e.parts ELSE <<e>>

C11_OneToolResultTurnPerDispatch ==
    \A r \in Requests :
        (pc[r] = "awaiting_model" /\ ModelTurns(r) >= 1)
        => /\ Len(history[r]) = 1 + 2 * Len(CallTurns(history[r]))
           /\ PartsOf(Last(history[r])) = function_response_parts[r]

(***************************************************************************)
(* C12.  Every turn in the history has at least one part, also when the    *)
(* model returns a turn without parts.                                     *)
(* main.py:92 appends the turn before main.py:96 looks at its parts, so a  *)
(* turn without parts is in the history when the request ends.             *)
(***************************************************************************)
C12_NoEmptyTurn ==
    \A r \in Requests :
        \A i \in 1..Len(history[r]) :
            IsContent(history[r][i]) => history[r][i].parts # <<>>

(***************************************************************************)
(* C13.  The history is append-only: at every step the history before the  *)
(* step is a prefix of the history after it, and its first element is the  *)
(* user's part built from the request's prompt.                            *)
(***************************************************************************)
IsPrefix(p, q) == Len(p) <= Len(q) /\ SubSeq(q, 1, Len(p)) = p

C13_HistoryAppendOnly ==
    [][\A r \in Requests :
          /\ IsPrefix(history[r], history'[r])
          /\ history'[r] # <<>>
             => /\ request'[r].json
                /\ history'[r][1] = [kind |-> "text", text |-> request'[r].obj["prompt"]]
      ]_vars

C13_Witness ==
    /\ pc[1] = "awaiting_model"
    /\ Len(history[1]) = 4
    /\ history[1][1] = Text(Prompt)
    /\ IsContent(history[1][2])
    /\ IsToolResult(history[1][4])

(***************************************************************************)
(* C14.  With several requests in flight, in any interleaving, a step of   *)
(* one request leaves the state of every other request alone; the history  *)
(* given to a model invocation of a request holds only turns and tool      *)
(* results produced for that request; and a request ends as it would on    *)
(* its own with the same answers.                                          *)
(***************************************************************************)
StateOf(r) ==
    <<request[r], pc[r], history[r], candidate[r], idx[r],
      function_response_parts[r], sent[r], modelCalls[r], execLog[r], http[r]>>

\* a part, or a tool result, that was produced for request r
ProducedFor(p, r) ==
    IF p.kind = "text" THEN p.text = Tag(r)
    ELSE IF p.kind = "function_call"
    THEN /\ p.name \in {"execute_sql_query", Tag(r)}
         /\ \A k \in DOMAIN p.args : p.args[k] = Tag(r)
    ELSE /\ p.kind = "function_response"
         /\ p.name \in {"execute_sql_query", Tag(r)}
         /\ IF "error" \in DOMAIN p.response
            THEN p.response.error[2] = Tag(r)
            ELSE IF p.response.result.kind = "list"
            THEN \A i \in 1..Len(p.response.result.doc) :
                     p.response.result.doc[i].product_id.v = Tag(r)
            ELSE p.response.result.text[2] = Tag(r)

\* everything after the prompt in a history was produced for request r
OwnHistory(h, r) ==
    \A i \in 2..Len(h) :
        IF IsContent(h[i])
        THEN \A j \in 1..Len(h[i].parts) : ProducedFor(h[i].parts[j], r)
        ELSE ProducedFor(h[i], r)

\* the response a request gives when it runs alone and is given these answers
OutcomeAlone(r) ==
    IF ~request[r].json THEN Internal500("request.json")
    ELSE IF PromptMissingOrEmpty(request[r]) THEN BadRequest400
    ELSE IF ModelFailed(r) THEN Internal500("generate_content")
    ELSE LET last == ModelTurn(history[r], ModelTurns(r))
         IN IF IsTextTurn(last) THEN Ok200(last[1].text)
            ELSE Internal500("candidate.text")

C14_RequestsAreIsolated ==
    [][\A r \in Requests :
          /\ StateOf(r)' # StateOf(r)
             => \A q \in Requests \ {r} : StateOf(q)' = StateOf(q)
          /\ OwnHistory(sent[r], r)'
          /\ OwnHistory(history[r], r)'
          /\ (Ended(r) => http[r] = OutcomeAlone(r))'
      ]_vars

C14_Witness ==
    /\ pc[1] = "in_model"
    /\ modelCalls[1] = 2
    /\ Len(ToolResults(sent[1])) = 2
    /\ pc[2] = "in_executor"
    /\ ModelTurns(2) = 1

(***************************************************************************)
(* C15.  Dispatching a model turn builds exactly one tool result for each  *)
(* of its function calls, not only the first, and none for its text parts; *)
(* the i-th result carries the name of the i-th call.                      *)
(***************************************************************************)
NamesOf(q) == [i \in 1..Len(q) |-> q[i].name]
\* the function calls of the current turn that the for loop has gone past
CallsPassed(r) == SelectSeq(SubSeq(candidate[r], 1, idx[r] - 1), HasFunctionCall)

C15_OneResultPerCall ==
    \A r \in Requests :
        /\ MidDispatch(r)
           => /\ NamesOf(function_response_parts[r]) = NamesOf(CallsPassed(r))
              /\ \A i \in 1..Len(function_response_parts[r]) :
                     IsToolResult(function_response_parts[r][i])
        /\ NamesOf(ToolResults(history[r])) =
               NamesOf(CallsIn(IF MidDispatch(r) THEN Front(history[r]) ELSE history[r]))

C15_Witness ==
    /\ pc[1] = "awaiting_model"
    /\ candidate[1] = <<SqlCall, OtherCall>>
    /\ NamesOf(ToolResults(history[1])) = <<"execute_sql_query", "drop_table">>

(***************************************************************************)
(* C16.  Within a request the external calls are sequential: the executor  *)
(* is invoked once for each execute_sql_query call, in the order of the    *)
(* parts and with that part's query; an invocation has returned before the *)
(* next begins; and none is under way while the model is invoked.          *)
(***************************************************************************)
QueryOf(call) == IF "query" \in DOMAIN call.args THEN call.args["query"] ELSE ""
Pending(entry) == entry.output.kind = "none"

\* the execute_sql_query calls reached so far, the one under way included
SqlCallsReached(r) ==
    SelectSeq(HandledCalls(r), IsSqlCall) \o
    (IF pc[r] = "in_executor" THEN <<candidate[r][idx[r]]>> ELSE <<>>)

C16_ExternalCallsSequential ==
    \A r \in Requests :
        /\ Len(execLog[r]) = Len(SqlCallsReached(r))
        /\ \A i \in 1..Len(execLog[r]) :
            /\ execLog[r][i].query = QueryOf(SqlCallsReached(r)[i])
            /\ Pending(execLog[r][i]) <=> (pc[r] = "in_executor" /\ i = Len(execLog[r]))
        /\ pc[r] = "in_model" => Len(SqlResults(ToolResults(sent[r]))) = Len(execLog[r])

C16_Witness ==
    /\ pc[1] = "in_executor"
    /\ Len(execLog[1]) = 2
    /\ ~Pending(execLog[1][1])
    /\ Pending(execLog[1][2])

(***************************************************************************)
(* C17.  Every model invocation that returns appends one model turn that   *)
(* holds the whole response, before the response is classified: the number *)
(* of model turns in the history equals the number of invocations that     *)
(* have returned, the final one included.                                  *)
(***************************************************************************)
\* the invocations made, less the one under way and the one that raised
ReturnedInvocations(r) ==
    modelCalls[r]
    - (IF pc[r] = "in_model" THEN 1 ELSE 0)
    - (IF http[r].status = 500 /\ http[r].body.error[2] = "generate_content" THEN 1 ELSE 0)

C17_OneModelTurnPerReturn ==
    \A r \in Requests :
        /\ ModelTurns(r) = ReturnedInvocations(r)
        /\ Len(history[r]) =
               (IF history[r] = <<>> THEN 0 ELSE 1) + ModelTurns(r) + Len(ToolResults(history[r]))
        /\ ModelTurns(r) >= 1
           => /\ ModelTurn(history[r], ModelTurns(r)) = candidate[r]
              /\ SelectSeq(history[r], IsContent)[ModelTurns(r)].role = "model"

C17_Witness ==
    /\ Ended(1)
    /\ http[1].status = 200
    /\ modelCalls[1] = 1
    /\ ModelTurns(1) = 1
    /\ Last(history[1]) = Content(<<Text("a")>>)

(***************************************************************************)
(* C18.  The answer of a final response is the text of all its text parts, *)
(* joined in order: for one text part that text, for several all of them.  *)
(* For one text part it is; for several, candidate.text raises and the     *)
(* request ends with status 500.                                           *)
(***************************************************************************)
AllText(parts) == parts # <<>> /\ \A i \in 1..Len(parts) : parts[i].kind = "text"
TextsOf(parts) == [i \in 1..Len(parts) |-> parts[i].text]
\* the response text is the texts joined: the one text, or the pieces in order
IsJoined(response, texts) ==
    IF Len(texts) = 1 THEN response = texts[1] ELSE response = texts

C18_AnswerJoinsTextParts ==
    \A r \in Requests :
        (ModelTurns(r) >= 1 /\ AllText(ModelTurn(history[r], ModelTurns(r))))
        => /\ Ended(r)
           /\ http[r].status = 200
           /\ IsJoined(http[r].body.response, TextsOf(ModelTurn(history[r], ModelTurns(r))))

(***************************************************************************)
(* C19.  An execute_sql_query call without a "query" argument still        *)
(* invokes the executor, with the empty string; the executor's failure     *)
(* comes back as the tool result, carrying the error text, and the request *)
(* goes on to the next model invocation instead of ending in an error.     *)
(***************************************************************************)
C19_MissingQueryIsEmptyString ==
    \A r \in Requests :
        LET calls == SqlCallsReached(r)
            results == SqlResults(ResultsSoFar(r))
        IN /\ Len(execLog[r]) = Len(calls)
           /\ \A i \in 1..Len(calls) :
                  "query" \notin DOMAIN calls[i].args
                  => /\ execLog[r][i].query = ""
                     /\ ~Pending(execLog[r][i])
                        => /\ execLog[r][i].output.kind = "plain_text"
                           /\ execLog[r][i].output.text[1] = "Error executing query: "
                           /\ i <= Len(results)
                           /\ DOMAIN results[i].response = {"result"}
                           /\ results[i].response.result = execLog[r][i].output
           /\ GoesOnToModel(r)
           /\ http[r].status = 500
              => http[r].body.error[2] \in {"request.json", "generate_content", "candidate.text"}

C19_Witness ==
    /\ pc[1] = "in_model"
    /\ modelCalls[1] = 2
    /\ candidate[1][1] = SqlCallNoQuery
    /\ execLog[1][1].query = ""
    /\ sent[1][3] = FunctionResponse("execute_sql_query", [result |-> execLog[1][1].output])

(***************************************************************************)
(* C20.  The model is never invoked twice on the same history: from one    *)
(* invocation to the next the history given has grown by the model turn    *)
(* and at least one tool result, and the tool results appended after a     *)
(* dispatch are never none.                                                *)
(***************************************************************************)
C20_HistoryGrowsBetweenInvocations ==
    [][\A r \in Requests :
          /\ (modelCalls'[r] = modelCalls[r] + 1 /\ modelCalls[r] >= 1)
             => /\ IsPrefix(sent[r], sent'[r])
                /\ Len(sent'[r]) >= Len(sent[r]) + 2
                /\ IsContent(sent'[r][Len(sent[r]) + 1])
                /\ \A j \in (Len(sent[r]) + 2)..Len(sent'[r]) : IsToolResult(sent'[r][j])
          /\ (pc[r] = "dispatching" /\ pc'[r] = "awaiting_model")
             => /\ function_response_parts[r] # <<>>
                /\ history'[r] = history[r] \o function_response_parts[r]
      ]_vars

C20_Witness ==
    /\ pc[1] = "in_model"
    /\ modelCalls[1] = 2
    /\ Len(sent[1]) = 3
    /\ IsContent(sent[1][2])
    /\ IsToolResult(sent[1][3])

====
